---------------------------- MODULE Spec2Model ----------------------------
(***************************************************************************)
(* A state-machine model of the Launtel Home Assistant integration:        *)
(* the portal client (api.py: login guard, page fetches, the two-step      *)
(* plan change), the polling coordinator (__init__.py: _async_update) and  *)
(* the plan select entity (select.py: async_select_option).                *)
(*                                                                         *)
(* asyncio is cooperative: a coroutine runs without interruption until it  *)
(* awaits something that really suspends (a network round trip, a held     *)
(* lock, a refresh).  Every action below is one such uninterrupted run.    *)
(***************************************************************************)
EXTENDS Integers, Sequences, FiniteSets, TLC

(***************************************************************************)
(* Optional values (Python's Optional[...]): None is the empty sequence,   *)
(* a present value v is <<v>>.                                             *)
(***************************************************************************)
None == <<>>

Some(v) == <<v>>

IsNone(o) == o = None

\* Python truthiness of an Optional[str]: None and "" are falsy.
Truthy(o) == o # None /\ o[1] # ""

\* Python's `a or b` on two Optional[str] values.
PyOr(a, b) == IF Truthy(a) THEN a ELSE b

(***************************************************************************)
(* Bounds of the model.                                                    *)
(***************************************************************************)
\* Timer- or button-triggered polling cycles after the setup-time refresh.
MaxCycles == 2

\* Select-option requests each user task may issue.
MaxRequests == 1

\* Client operations the direct callers of the client may invoke in total.
MaxCalls == 3

\* Service cards of a directory page handed to the parser alone.
MaxCards == 2

\* Plan items of a catalog page handed to the parser alone.
MaxItems == 2

(***************************************************************************)
(* Configuration of the entry (entry.data, entry.title) and the intervals. *)
(***************************************************************************)
service_id == 1

avcid == "AVC1"

user_id == "U1"

entry_title == "Home"

\* timedelta(hours=6) and timedelta(minutes=1), in minutes.
NORMAL_INTERVAL == 360

CHANGE_POLL_INTERVAL == 1

(***************************************************************************)
(* LauntelService and the service-directory parser.                        *)
(***************************************************************************)
LauntelService(title, sid, avc, uid, speed, cip) ==
    [title |-> title, service_id |-> sid, avcid |-> avc, user_id |-> uid,
     speed_label |-> speed, change_in_progress |-> cip]

\* The status texts the model's pages use that contain "Change in progress".
ContainsChangeInProgress(text) ==
    text \in {"Change in progress", "Status: Change in progress (ETA 5 min)"}

\* A card of the page: title is the text of span.service-title-txt, stripped
\* (None when the tag is absent); href is the chart link's href split on "="
\* (None when there is no chart link or no href); id is the card's id
\* attribute ("" when absent); pause is the number in the (un)pauseService
\* onclick handler (None when absent); speed and status are the dd texts.
Card(title, href, id, pause, speed, status) ==
    [title |-> title, href |-> href, id |-> id, pause |-> pause,
     speed |-> speed, status |-> status]

\* Mutant: a card is kept without looking at its user id.
ParseCard_NoUserIdCheck(services, card) ==
    IF IsNone(card.title) THEN services
    ELSE IF IsNone(card.href) \/ card.href[1] = <<"">> THEN services
    ELSE IF card.title[1] # "" /\ ~IsNone(card.pause) /\ card.id # ""
    THEN Append(services,
                LauntelService(card.title[1], card.pause[1], card.id,
                               IF Len(card.href[1]) > 2 THEN card.href[1][3]
                               ELSE "",
                               card.speed,
                               /\ ~IsNone(card.status)
                               /\ ContainsChangeInProgress(card.status[1])))
    ELSE services

\* One iteration of the loop over the cards: the services list after `card`.
ParseCard(services, card) ==
    IF IsNone(card.title) THEN services
    ELSE IF IsNone(card.href) \/ card.href[1] = <<"">> THEN services
    ELSE LET serv_title == card.title[1]
             parts == card.href[1]
             serv_user_id == IF Len(parts) > 2 THEN parts[3] ELSE ""
             serv_avc_id == card.id
             serv_id == card.pause
             cip == /\ ~IsNone(card.status)
                    /\ ContainsChangeInProgress(card.status[1])
         IN  IF /\ serv_title # ""
                /\ ~IsNone(serv_id)
                /\ serv_avc_id # ""
                /\ serv_user_id # ""
             THEN Append(services,
                         LauntelService(serv_title, serv_id[1], serv_avc_id,
                                        serv_user_id, card.speed, cip))
             ELSE services

RECURSIVE ParseCards(_, _, _)
ParseCards(cards, i, services) ==
    IF i > Len(cards) THEN services
    ELSE ParseCards(cards, i + 1, ParseCard(services, cards[i]))

\* async_get_services, after the page has been fetched.
ParseServices(cards) == ParseCards(cards, 1, <<>>)

\* next((s for s in services if s.service_id == service_id), None)
RECURSIVE FindFrom(_, _, _)
FindFrom(services, i, sid) ==
    IF i > Len(services) THEN None
    ELSE IF services[i].service_id = sid THEN Some(services[i])
    ELSE FindFrom(services, i + 1, sid)

\* Mutant: the first service of the list is taken, whatever its id.
FindService_FirstCard(services, sid) ==
    IF Len(services) > 0 THEN Some(services[1]) ELSE None

FindService(services, sid) == FindFrom(services, 1, sid)

\* The placeholder of _async_update (both branches build the same value).
PlaceholderService ==
    LauntelService(entry_title, service_id, avcid, user_id, None, TRUE)

(***************************************************************************)
(* The plan-catalog parser.                                                *)
(***************************************************************************)
\* int(): the strings of the model's pages that parse, and their values.
IsIntString(s) == s \in {"1", "2", " 2 "}

IntOf(s) == IF s = "1" THEN 1 ELSE 2

\* A page: probes are the values found at the three selectors, in order
\* (None: no element, or no value); items are the span.list-group-item
\* elements, psid_str their data-value (None when absent) and label their
\* whitespace-collapsed text; locid is input[name=locid]'s value.
CatalogPage(probes, items, locid) ==
    [probes |-> probes, items |-> items, locid |-> locid]

Item(psid_str, label) == [psid_str |-> psid_str, label |-> label]

\* Mutant: only the location looked at first is read.
ProbeFrom_FirstOnly(probes, i) ==
    IF i <= Len(probes) /\ Truthy(probes[i]) /\ IsIntString(probes[i][1])
    THEN Some(IntOf(probes[i][1]))
    ELSE None

\* The loop over the selectors: the first value that parses as an integer.
RECURSIVE ProbeFrom(_, _)
ProbeFrom(probes, i) ==
    IF i > Len(probes) THEN None
    ELSE IF Truthy(probes[i]) /\ IsIntString(probes[i][1])
         THEN Some(IntOf(probes[i][1]))
         ELSE ProbeFrom(probes, i + 1)

CurrentPsid(page) == ProbeFrom(page.probes, 1)

\* dict assignment d[k] = v.
DictSet(d, k, v) == [x \in DOMAIN d \cup {k} |-> IF x = k THEN v ELSE d[x]]

EmptyDict == [x \in {} |-> 0]

\* The accumulator of the loop over the plan items.
EmptyPlans ==
    [raised |-> FALSE, options |-> <<>>, label_to_psid |-> EmptyDict,
     keys |-> <<>>, plans_mapping |-> EmptyDict]

\* Mutant: the label of an item is appended to options even when empty.
ParseItem_OptionsAlways(acc, item) ==
    IF acc.raised THEN acc
    ELSE IF ~Truthy(item.psid_str) THEN acc
    ELSE IF ~IsIntString(item.psid_str[1]) THEN [acc EXCEPT !.raised = TRUE]
    ELSE LET psid == IntOf(item.psid_str[1])
             label == item.label
         IN  [raised |-> FALSE,
              options |-> Append(acc.options, label),
              label_to_psid |-> IF label # ""
                                THEN DictSet(acc.label_to_psid, label, psid)
                                ELSE acc.label_to_psid,
              keys |-> IF label # "" /\ label \notin DOMAIN acc.label_to_psid
                       THEN Append(acc.keys, label) ELSE acc.keys,
              plans_mapping |-> DictSet(acc.plans_mapping, psid,
                                        [label |-> label])]

\* One iteration: items without a data-value are skipped, int() of a
\* non-integer data-value raises, a non-empty label is recorded in
\* label_to_psid and options, and plans_mapping is written in every case.
\* keys is the insertion order of label_to_psid.
ParseItem(acc, item) ==
    IF acc.raised THEN acc
    ELSE IF ~Truthy(item.psid_str) THEN acc
    ELSE IF ~IsIntString(item.psid_str[1]) THEN [acc EXCEPT !.raised = TRUE]
    ELSE LET psid == IntOf(item.psid_str[1])
             label == item.label
         IN  [raised |-> FALSE,
              options |-> IF label # "" THEN Append(acc.options, label)
                          ELSE acc.options,
              label_to_psid |-> IF label # ""
                                THEN DictSet(acc.label_to_psid, label, psid)
                                ELSE acc.label_to_psid,
              keys |-> IF label # "" /\ label \notin DOMAIN acc.label_to_psid
                       THEN Append(acc.keys, label) ELSE acc.keys,
              plans_mapping |-> DictSet(acc.plans_mapping, psid,
                                        [label |-> label])]

RECURSIVE ParseItems(_, _, _)
ParseItems(items, i, acc) ==
    IF i > Len(items) THEN acc
    ELSE ParseItems(items, i + 1, ParseItem(acc, items[i]))

\* for label, pid in label_to_psid.items(): first key whose psid matches.
RECURSIVE LabelOf(_, _, _, _)
LabelOf(keys, i, label_to_psid, psid) ==
    IF i > Len(keys) THEN None
    ELSE IF label_to_psid[keys[i]] = psid THEN Some(keys[i])
    ELSE LabelOf(keys, i + 1, label_to_psid, psid)

\* async_get_plan_options, after the page has been fetched (current_psid
\* is the local variable; it is not part of the returned tuple).
ParsePlanOptions(page) ==
    LET acc == ParseItems(page.items, 1, EmptyPlans)
        current_psid == CurrentPsid(page)
    IN  [raised |-> acc.raised,
         current_psid |-> current_psid,
         options |-> acc.options,
         label_to_psid |-> acc.label_to_psid,
         current_label |-> IF IsNone(current_psid) THEN None
                           ELSE LabelOf(acc.keys, 1, acc.label_to_psid,
                                        current_psid[1]),
         locid |-> page.locid,
         plans_mapping |-> acc.plans_mapping]

(***************************************************************************)
(* The balance parser.  A text is a sequence of one-character strings; an  *)
(* amount is a number of cents.                                            *)
(***************************************************************************)
IsDigit(c) == c \in {"0", "1", "2", "3", "4", "5", "6", "7", "8", "9"}

\* The character class [0-9,].
IsNumChar(c) == IsDigit(c) \/ c = ","

\* The end of a greedy run of [0-9,] from i: the first index after it.
RECURSIVE NumRunEnd(_, _)
NumRunEnd(text, i) ==
    IF i <= Len(text) /\ IsNumChar(text[i]) THEN NumRunEnd(text, i + 1)
    ELSE i

\* The end of a greedy run of [0-9] from i.
RECURSIVE DigitRunEnd(_, _)
DigitRunEnd(text, i) ==
    IF i <= Len(text) /\ IsDigit(text[i]) THEN DigitRunEnd(text, i + 1)
    ELSE i

\* ([\+\-]?)\$?([0-9,]+\.?[0-9]*) matched at position i: the two groups,
\* or None.  Sign and dollar are taken when present; giving one back never
\* lets the rest match, since the number must start with a digit or comma.
AmountMatchAt(text, i) ==
    LET a == IF i <= Len(text) /\ text[i] \in {"+", "-"} THEN i + 1 ELSE i
        b == IF a <= Len(text) /\ text[a] = "$" THEN a + 1 ELSE a
    IN  IF b <= Len(text) /\ IsNumChar(text[b])
        THEN LET e1 == NumRunEnd(text, b)
                 e2 == IF e1 <= Len(text) /\ text[e1] = "." THEN e1 + 1
                       ELSE e1
                 e3 == DigitRunEnd(text, e2)
             IN  Some([sign |-> IF a > i THEN text[i] ELSE "",
                       num |-> SubSeq(text, b, e3 - 1)])
        ELSE None

\* re.search: the match at the leftmost position that has one.
RECURSIVE SearchFrom(_, _)
SearchFrom(text, i) ==
    IF i > Len(text) THEN None
    ELSE IF AmountMatchAt(text, i) # None THEN AmountMatchAt(text, i)
    ELSE SearchFrom(text, i + 1)

\* str.replace(',', '').
RemoveCommas(str) == SelectSeq(str, LAMBDA c : c # ",")

DigitValue(c) ==
    CASE c = "0" -> 0 [] c = "1" -> 1 [] c = "2" -> 2 [] c = "3" -> 3
      [] c = "4" -> 4 [] c = "5" -> 5 [] c = "6" -> 6 [] c = "7" -> 7
      [] c = "8" -> 8 [] c = "9" -> 9

RECURSIVE DigitsValue(_, _)
DigitsValue(digits, acc) ==
    IF digits = <<>> THEN acc
    ELSE DigitsValue(Tail(digits), 10 * acc + DigitValue(Head(digits)))

\* float() of digits with at most one point, in cents (the texts of the
\* model have at most two decimals): None is the ValueError of a string
\* without any digit.
Float(str) ==
    LET e == DigitRunEnd(str, 1)
        whole == SubSeq(str, 1, e - 1)
        frac == SubSeq(str, e + 1, Len(str))
    IN  IF whole = <<>> /\ frac = <<>> THEN None
        ELSE Some(100 * DigitsValue(whole, 0)
                  + (IF Len(frac) = 0 THEN 0
                     ELSE IF Len(frac) = 1 THEN 10 * DigitValue(frac[1])
                     ELSE 10 * DigitValue(frac[1]) + DigitValue(frac[2])))

\* Mutant: the sign is dropped.
Signed_Dropped(sign, balance) == balance

\* `if sign == '-': balance = -balance`.
Signed(sign, balance) == IF sign = "-" THEN 0 - balance ELSE balance

\* What a match yields: sign and magnitude, or None when float() raises
\* (the except clause sets balance = None).
Yield(m) ==
    IF m = None THEN None
    ELSE LET f == Float(RemoveCommas(m[1].num))
         IN  IF f = None THEN None
             ELSE Some([sign |-> m[1].sign, magnitude |-> f[1]])

\* Tiers one and two: the amount searched in the text of a span.
SpanYield(text) == Yield(SearchFrom(text, 1))

\* [:\s]* from i: the first index after the run.
RECURSIVE SkipSeparators(_, _)
SkipSeparators(text, i) ==
    IF i <= Len(text) /\ text[i] \in {":", " "}
    THEN SkipSeparators(text, i + 1)
    ELSE i

\* Tier three: the amount right after "Current Balance" and [:\s]* in the
\* text of the page; tail is the text that follows the words.
TailYield(tail) == Yield(AmountMatchAt(tail, SkipSeparators(tail, 1)))

Amount(y) == IF y = None THEN None ELSE Some(Signed(y[1].sign, y[1].magnitude))

\* What async_get_balance reads from the page: labelled is the text of the
\* span in the dd after dt "Current Balance", card the text of the span in
\* the dd of div.card-balance (None when an element of the chain is
\* missing), tail the page text after the words "Current Balance" (None
\* when the words do not occur).
BalancePage(labelled, card, tail) ==
    [labelled |-> labelled, card |-> card, tail |-> tail]

\* async_get_balance, after the page has been fetched.
ParseBalance(page) ==
    LET b1 == IF page.labelled # None
              THEN Amount(SpanYield(page.labelled[1])) ELSE None
        b2 == IF b1 # None THEN b1
              ELSE IF page.card # None THEN Amount(SpanYield(page.card[1]))
              ELSE None
        b3 == IF b2 # None THEN b2
              ELSE IF page.tail # None THEN Amount(TailYield(page.tail[1]))
              ELSE None
    IN  b3

(***************************************************************************)
(* What the portal may answer.                                             *)
(***************************************************************************)
\* A response: transport is a failure below HTTP (the request raises
\* instead of returning); status is the final HTTP status otherwise.
Response(transport, status) == [transport |-> transport, status |-> status]

\* The request failed in transport or was answered with an error status.
AnswerIsError(r) == r.transport \/ r.status >= 400

HttpStatuses == {200, 304, 500}

Responses ==
    {Response(TRUE, 0)} \cup {Response(FALSE, s) : s \in HttpStatuses}

\* POST /login: form tells whether the body still holds name="username".
LoginResponses ==
    {[transport |-> TRUE, status |-> 0, form |-> FALSE],
     [transport |-> FALSE, status |-> 200, form |-> FALSE],
     [transport |-> FALSE, status |-> 200, form |-> TRUE],
     [transport |-> FALSE, status |-> 401, form |-> TRUE]}

TargetCard(speed, status) ==
    Card(Some("Home Fibre"), Some(<<"/usage?avcid", "AVC1&userid", "U1">>),
         "AVC1", Some(1), speed, status)

OtherCard ==
    Card(Some("Office"), Some(<<"/usage?avcid", "AVC2&userid", "U1">>),
         "AVC2", Some(2), Some("Fibre 50/20 Mbps"), Some("Active"))

\* A card of the target service whose link has no user id segment.
BrokenTargetCard ==
    Card(Some("Home Fibre"), Some(<<"/usage?avcid", "AVC1">>),
         "AVC1", Some(1), Some("Fibre 100/40 Mbps"), Some("Active"))

DirectoryPages ==
    {<<OtherCard, TargetCard(Some("Fibre 100/40 Mbps"), Some("Active"))>>,
     <<TargetCard(Some("Fibre 250/100 Mbps"), Some("Change in progress"))>>,
     <<TargetCard(None, None)>>,
     <<BrokenTargetCard, OtherCard>>}

CatalogPages ==
    {CatalogPage(<<Some("1"), None, None>>,
                 <<Item(Some("1"), "Plan A"), Item(Some("2"), "Plan B")>>,
                 Some("L1")),
     CatalogPage(<<None, None, None>>, <<>>, Some("L1")),
     CatalogPage(<<Some("1"), None, None>>,
                 <<Item(Some("1"), "Plan A"), Item(Some("2"), "Plan B")>>,
                 None),
     CatalogPage(<<Some("abc"), Some(" 2 "), None>>,
                 <<Item(None, "Header"), Item(Some("1"), "Plan A"),
                   Item(Some("2"), "Plan B")>>,
                 Some("")),
     CatalogPage(<<None, None, None>>,
                 <<Item(Some("1"), "Plan A"), Item(Some("n/a"), "Plan X")>>,
                 Some("L1"))}

\* The body of a page fetch: a 304 carries no body, so it parses as empty.
PageResponses(pages, empty) ==
    {[transport |-> TRUE, status |-> 0, page |-> empty],
     [transport |-> FALSE, status |-> 500, page |-> empty],
     [transport |-> FALSE, status |-> 304, page |-> empty]}
    \cup {[transport |-> FALSE, status |-> 200, page |-> p] : p \in pages}

EmptyCatalogPage == CatalogPage(<<None, None, None>>, <<>>, None)

\* The options a user may pick in the model.
OptionChoices == {"Plan B", "Bogus"}

(***************************************************************************)
(* State.                                                                  *)
(***************************************************************************)
\* The tasks of the integration: the coordinator's refresh and the select
\* entity's service calls.
Users == {"u1", "u2"}

\* Tasks that call the client's public operations directly, as the command
\* line tool and the config flow do.
Callers == {"c1", "c2", "c3"}

Agents == Users \cup Callers

Tasks == {"poll"} \cup Agents

\* The public operations of LauntelClient that start with _ensure_login.
ClientOps == {"services", "plan_options", "change_plan", "balance"}

VARIABLES
    logged_in,         \* LauntelClient._logged_in
    lock,              \* LauntelClient._lock: its holder, or "free"
    pc,                \* where each task is suspended
    call,              \* the client operation each task is inside
    data,              \* coordinator.data: None before the first refresh
    previous_service,  \* the nonlocal previous_service of async_setup_entry
    update_interval,   \* coordinator.update_interval
    setup,             \* async_setup_entry: "pending", "loaded" or "failed"
    svc,               \* _async_update's svc while the catalog is fetched
    sel,               \* async_select_option's locals, per user task
    requests,          \* requests issued, per user task and direct caller
    cycles,            \* polling cycles started after setup
    login_posts,       \* history: POST /login requests issued
    login_fails,       \* history: login attempts that raised
    last_login,        \* history: the last answer to POST /login
    cyc,               \* history: what the running or last cycle saw
    chg,               \* history: the plan change of each task's last request
    outcome,           \* history: how each user's last request ended
    input,             \* the page handed to a parser, None when there is none
    result             \* what the parser returned for it, None before

clientVars == <<logged_in, lock, login_posts, login_fails, last_login>>

coordVars == <<data, previous_service, update_interval, setup, svc, cyc>>

selectVars == <<sel, requests, chg, outcome>>

parserVars == <<input, result>>

programVars ==
    <<logged_in, lock, pc, call, data, previous_service, update_interval,
      setup, svc, sel, requests, cycles, login_posts, login_fails,
      last_login, cyc, chg, outcome>>

vars == <<logged_in, lock, pc, call, data, previous_service, update_interval,
          setup, svc, sel, requests, cycles, login_posts, login_fails,
          last_login, cyc, chg, outcome, input, result>>

NoCycle ==
    [first |-> FALSE, prev |-> None, prevcip |-> None, dir |-> "none",
     found |-> None,
     err |-> "none", cat |-> "none", parsed |-> None, wrote |-> FALSE,
     done |-> FALSE]

NoSel == [psid |-> 0, stage |-> "none"]

NoChg == [get |-> None, post |-> None, posts |-> 0, locid |-> None]

\* The state after construction of the client and the coordinator.
Constructed ==
    /\ logged_in = FALSE
    /\ lock = "free"
    /\ pc = [t \in Tasks |-> "idle"]
    /\ call = [t \in Tasks |-> "none"]
    /\ data = None
    /\ previous_service = None
    /\ update_interval = NORMAL_INTERVAL
    /\ setup = "pending"
    /\ svc = None
    /\ sel = [u \in Users |-> NoSel]
    /\ requests = [a \in Agents |-> 0]
    /\ cycles = 0
    /\ login_posts = 0
    /\ login_fails = 0
    /\ last_login = None
    /\ cyc = NoCycle
    /\ chg = [a \in Agents |-> NoChg]
    /\ outcome = [a \in Agents |-> "none"]

Init ==
    /\ Constructed
    /\ input = None
    /\ result = None

(***************************************************************************)
(* The client: _ensure_login and async_login.                              *)
(***************************************************************************)
\* Mutant: an operation never logs in before its request.
NeedsLogin_Never(li) == FALSE

\* _ensure_login: `if not self._logged_in`.
NeedsLogin(li) == ~li

\* Mutant: the flag is not looked at again once the lock is held.
AlreadyLoggedIn_NoRecheck(li) == FALSE

\* async_login, under the lock: `if self._logged_in: return`.
AlreadyLoggedIn(li) == li

\* Mutant: no answer to the login request counts as a rejection.
LoginRejected_Never(r) == FALSE

\* Mutant: the login form in the answer is not looked for.
LoginRejected_StatusOnly(r) == r.status >= 400

\* async_login: `resp.status >= 400 or "name=\"username\"" in text`.
LoginRejected(r) == r.status >= 400 \/ r.form

\* Mutant: the flag is not set after a login.
FlagAfterLogin_NotSet == FALSE

\* async_login: the flag after a login that was not rejected.
FlagAfterLogin == TRUE

\* Mutant: the status of an answer is never looked at.
RaiseForStatus_Never(status) == FALSE

\* resp.raise_for_status(): aiohttp raises for a status of 400 and above.
RaiseForStatus(status) == status >= 400

\* Mutant: the lock is never seen as held.
LockHeld_Never(l) == FALSE

\* `async with self._lock`: the lock is held by another task.
LockHeld(l) == l # "free"

\* Where a task waits once the first request of its operation is sent.
WaitPc(op) ==
    CASE op = "services" -> "services_wait"
      [] op = "plan_options" -> "options_wait"
      [] op = "change_plan" -> "confirm_get_wait"
      [] op = "balance" -> "balance_wait"

\* async_login once the lock is held: return when the flag is set already,
\* else POST /login and wait for the answer holding the lock.
LoginLocked(t) ==
    IF AlreadyLoggedIn(logged_in)
    THEN /\ pc' = [pc EXCEPT ![t] = WaitPc(call'[t])]
         /\ UNCHANGED <<lock, login_posts>>
    ELSE /\ pc' = [pc EXCEPT ![t] = "login_wait"]
         /\ lock' = t
         /\ login_posts' = login_posts + 1

\* Task t enters client operation op: `await self._ensure_login()` and then
\* the operation's first request.  A free asyncio.Lock is taken without
\* suspending; a held one suspends the task.
EnsureLoginThen(t, op) ==
    /\ call' = [call EXCEPT ![t] = op]
    /\ UNCHANGED <<logged_in, login_fails, last_login>>
    /\ IF ~NeedsLogin(logged_in)
       THEN /\ pc' = [pc EXCEPT ![t] = WaitPc(op)]
            /\ UNCHANGED <<lock, login_posts>>
       ELSE IF LockHeld(lock)
       THEN /\ pc' = [pc EXCEPT ![t] = "lock_wait"]
            /\ UNCHANGED <<lock, login_posts>>
       ELSE LoginLocked(t)

(***************************************************************************)
(* The coordinator: _async_update.                                         *)
(***************************************************************************)
Catalog(options, label_to_psid, current_label, locid, plans_mapping) ==
    [options |-> options, label_to_psid |-> label_to_psid,
     current_label |-> current_label, locid |-> locid,
     plans_mapping |-> plans_mapping]

\* Mutant: the cleared catalog keeps a location id.
EmptyCatalog_KeepsLocid(current_label) ==
    Catalog(<<>>, EmptyDict, current_label, Some("L1"), EmptyDict)

\* The defaults of _async_update, with the current label it ends up with.
EmptyCatalog(current_label) ==
    Catalog(<<>>, EmptyDict, current_label, None, EmptyDict)

\* Mutant: a missing service always becomes the placeholder.
ResolveMissing_AlwaysPlaceholder(prev) == PlaceholderService

\* Service missing from the list: previous_service, else the placeholder.
ResolveMissing(prev) == IF prev # None THEN prev[1] ELSE PlaceholderService

\* Mutant: a failed fetch always falls back to the placeholder.
FallbackService_AlwaysPlaceholder(prev) == PlaceholderService

\* The outer except: previous_service, else the placeholder.
FallbackService(prev) == IF prev # None THEN prev[1] ELSE PlaceholderService

\* Mutant: only a missing location id makes the catalog unusable.
CatalogUnusable_OnlyLocid(p) == IsNone(p.locid)

\* Mutant: a catalog without a location id still counts as usable.
CatalogUnusable_IgnoresLocid(p) ==
    p.options = <<>> /\ ~Truthy(p.current_label)

\* `(not options and not current_label) or (locid is None)`.
CatalogUnusable(p) ==
    \/ p.options = <<>> /\ ~Truthy(p.current_label)
    \/ IsNone(p.locid)

\* `current_label = current_label or svc.speed_label` of the unusable branch.
UnusableLabel(p, s) == PyOr(p.current_label, s.speed_label)

\* The data dict packaged for the entities.
Snapshot(s, cip, c) ==
    [service |-> s, options |-> c.options, label_to_psid |-> c.label_to_psid,
     current_label |-> c.current_label, locid |-> c.locid,
     user_id |-> user_id, service_id |-> service_id, avcid |-> avcid,
     plans_mapping |-> c.plans_mapping, change_in_progress |-> cip,
     service_speed_label |-> s.speed_label]

\* Mutant: the interval is the normal one after every cycle.
AdjustInterval_AlwaysNormal(cur, cip) == NORMAL_INTERVAL

\* Mutant: the interval is never switched back to the normal one.
AdjustInterval_NeverBack(cur, cip) ==
    IF cip /\ cur # CHANGE_POLL_INTERVAL THEN CHANGE_POLL_INTERVAL ELSE cur

\* "Adjust polling dynamically": the interval after the cycle.
AdjustInterval(cur, cip) ==
    IF cip /\ cur # CHANGE_POLL_INTERVAL THEN CHANGE_POLL_INTERVAL
    ELSE IF ~cip /\ cur # NORMAL_INTERVAL THEN NORMAL_INTERVAL
    ELSE cur

\* Mutant: only the first service ever resolved is remembered.
Remember_KeepFirst(prev, s) == IF prev = None THEN Some(s) ELSE prev

\* "Remember last known good service card": svc is never None here.
Remember(prev, s) == Some(s)

\* Mutant: the interval is assigned in every cycle.
IntervalWritten_Always(cur, cip) == TRUE

\* Whether the cycle assigns coordinator.update_interval.
IntervalWritten(cur, cip) ==
    \/ cip /\ cur # CHANGE_POLL_INTERVAL
    \/ ~cip /\ cur # NORMAL_INTERVAL

\* The end of _async_update: package the data, remember the service, adjust
\* the interval, return.  The coordinator publishes the returned data and
\* every task awaiting a refresh resumes.
Publish(s, cip, c, g) ==
    /\ data' = Some(Snapshot(s, cip, c))
    /\ previous_service' = Remember(previous_service, s)
    /\ update_interval' = AdjustInterval(update_interval, cip)
    /\ setup' = IF setup = "pending" THEN "loaded" ELSE setup
    /\ svc' = None
    /\ cyc' = [g EXCEPT !.done = TRUE,
                        !.wrote = IntervalWritten(update_interval, cip)]
    /\ pc' = [t \in Tasks |->
                IF t = "poll" THEN "idle"
                ELSE IF pc[t] = "refresh_wait" THEN "refreshed" ELSE pc[t]]
    /\ call' = [call EXCEPT !["poll"] = "none"]

\* Mutant: the stricter policy, under which an authentication error of the
\* setup-time refresh is raised as an update failure and setup fails.
ServicesFailed_AuthFailsSetup(err) ==
    IF err = "auth" /\ cyc.first
    THEN /\ setup' = "failed"
         /\ cyc' = [cyc EXCEPT !.dir = "fail", !.err = err, !.done = TRUE]
         /\ pc' = [pc EXCEPT !["poll"] = "idle"]
         /\ call' = [call EXCEPT !["poll"] = "none"]
         /\ UNCHANGED <<data, previous_service, update_interval, svc>>
    ELSE Publish(FallbackService(previous_service), TRUE, EmptyCatalog(None),
                 [cyc EXCEPT !.dir = "fail", !.err = err])

\* async_get_services raised: the outer except.
ServicesFailed(err) ==
    Publish(FallbackService(previous_service), TRUE, EmptyCatalog(None),
            [cyc EXCEPT !.dir = "fail", !.err = err])

\* Mutant: the error of the catalog fetch leaves _async_update, so the
\* refresh fails and nothing is published.
OptionsFailed_Raises(err) ==
    /\ setup' = IF setup = "pending" THEN "failed" ELSE setup
    /\ cyc' = [cyc EXCEPT !.cat = "raise", !.err = err]
    /\ pc' = [pc EXCEPT !["poll"] = "idle"]
    /\ call' = [call EXCEPT !["poll"] = "none"]
    /\ svc' = None
    /\ UNCHANGED <<data, previous_service, update_interval>>

\* Mutant: the inner except does not set the current label.
OptionsFailed_NoLabel(err) ==
    Publish(svc[1], TRUE, EmptyCatalog(None),
            [cyc EXCEPT !.cat = "raise", !.err = err])

\* async_get_plan_options raised: the inner except.
OptionsFailed(err) ==
    Publish(svc[1], TRUE, EmptyCatalog(svc[1].speed_label),
            [cyc EXCEPT !.cat = "raise", !.err = err])

(***************************************************************************)
(* The select entity: async_select_option.                                 *)
(***************************************************************************)
\* LauntelBalanceSensor.native_value: data.get("account_balance").
BalanceSensorValue(d) ==
    IF "account_balance" \in DOMAIN d THEN d["account_balance"] ELSE None

\* LauntelPlanSelect.available.
Available(d) == ~d.change_in_progress

\* Mutant: only an absent location id is refused, an empty one passes.
LocidMissing_NoneOnly(locid) == IsNone(locid)

\* async_select_option: `if not locid`.
LocidMissing(locid) == ~Truthy(locid)

\* Mutant: the error of a request is swallowed and the request goes on to
\* its follow-up refresh.
SelectFailed_Absorbed(u) ==
    /\ pc' = [pc EXCEPT ![u] = "refresh_wait"]
    /\ call' = [call EXCEPT ![u] = "none"]
    /\ sel' = [sel EXCEPT ![u].stage = "final"]
    /\ outcome' = [outcome EXCEPT ![u] = "pending"]

\* The request raises to its initiator (chg is left to the caller).
SelectFailed(u) ==
    /\ pc' = [pc EXCEPT ![u] = "idle"]
    /\ call' = [call EXCEPT ![u] = "none"]
    /\ sel' = [sel EXCEPT ![u] = NoSel]
    /\ outcome' = [outcome EXCEPT ![u] = "error"]

\* async_select_option raises a HomeAssistantError of its own, before any
\* request: why is "unavailable", "invalid" or "no_locid".
SelectRefused(u, why) ==
    /\ pc' = [pc EXCEPT ![u] = "idle"]
    /\ call' = [call EXCEPT ![u] = "none"]
    /\ sel' = [sel EXCEPT ![u] = NoSel]
    /\ outcome' = [outcome EXCEPT ![u] = why]

\* `await self._client.async_change_plan(user_id, psid, service_id, avcid,
\* locid)`.
StartChange(u, psid, locid) ==
    /\ sel' = [sel EXCEPT ![u] = [psid |-> psid, stage |-> "change"]]
    /\ chg' = [chg EXCEPT ![u] = [NoChg EXCEPT !.locid = locid]]
    /\ outcome' = [outcome EXCEPT ![u] = "pending"]
    /\ EnsureLoginThen(u, "change_plan")

\* A direct caller's operation ends: it returned ("ok") or raised.
CallerDone(c, how) ==
    /\ pc' = [pc EXCEPT ![c] = "idle"]
    /\ call' = [call EXCEPT ![c] = "none"]
    /\ outcome' = [outcome EXCEPT ![c] = how]
    /\ UNCHANGED sel

\* An exception leaves the client operation task t is in (chg is left to
\* the caller of Raise).
Raise(t, err) ==
    IF t = "poll"
    THEN /\ IF call[t] = "services" THEN ServicesFailed(err)
            ELSE OptionsFailed(err)
         /\ UNCHANGED <<sel, requests, outcome>>
    ELSE /\ IF t \in Users THEN SelectFailed(t) ELSE CallerDone(t, "error")
         /\ UNCHANGED <<requests, coordVars>>

(***************************************************************************)
(* Actions.                                                                *)
(***************************************************************************)
\* A refresh starts: the setup-time first refresh, the scheduler's timer,
\* the refresh button, or a refresh a select request is awaiting.  Cycles
\* of one coordinator never overlap.
CycleStart ==
    /\ pc["poll"] = "idle"
    /\ UNCHANGED parserVars
    /\ \/ setup = "pending"
       \/ /\ setup = "loaded"
          /\ \/ cycles < MaxCycles
             \/ \E u \in Users : pc[u] = "refresh_wait"
    /\ cycles' = IF setup = "loaded" /\ cycles < MaxCycles
                 THEN cycles + 1 ELSE cycles
    /\ cyc' = [NoCycle EXCEPT !.first = (setup = "pending"),
                              !.prev = previous_service,
                              !.prevcip = IF data = None THEN None
                                          ELSE Some(data[1].change_in_progress),
                              !.dir = "pending"]
    /\ EnsureLoginThen("poll", "services")
    /\ UNCHANGED <<data, previous_service, update_interval, setup, svc,
                   selectVars>>

\* A task that waited for the lock gets it.
LockAcquired(t) ==
    /\ pc[t] = "lock_wait"
    /\ UNCHANGED parserVars
    /\ lock = "free"
    /\ UNCHANGED <<call, logged_in, login_fails, last_login>>
    /\ LoginLocked(t)
    /\ UNCHANGED <<coordVars, selectVars, cycles>>

\* The answer to POST /login arrives (or the request fails below HTTP).
LoginResponse(t) ==
    /\ pc[t] = "login_wait"
    /\ UNCHANGED parserVars
    /\ \E r \in LoginResponses :
         /\ lock' = "free"
         /\ last_login' = Some(r)
         /\ UNCHANGED <<login_posts, cycles>>
         /\ IF r.transport \/ LoginRejected(r)
            THEN /\ UNCHANGED <<logged_in, chg>>
                 /\ login_fails' = login_fails + 1
                 /\ Raise(t, "auth")
            ELSE /\ logged_in' = FlagAfterLogin
                 /\ pc' = [pc EXCEPT ![t] = WaitPc(call[t])]
                 /\ UNCHANGED <<login_fails, call, coordVars, selectVars>>

\* The answer to GET /services arrives: the rest of the outer try up to
\* the catalog request, or to the end of the cycle.
ServicesResponse ==
    /\ pc["poll"] = "services_wait"
    /\ UNCHANGED parserVars
    /\ UNCHANGED cycles
    /\ \E r \in PageResponses(DirectoryPages, <<>>) :
         IF r.transport \/ RaiseForStatus(r.status)
         THEN /\ ServicesFailed(IF r.transport THEN "transport" ELSE "http")
              /\ UNCHANGED <<clientVars, selectVars>>
         ELSE LET found == FindService(ParseServices(r.page), service_id)
                  s == IF IsNone(found) THEN ResolveMissing(previous_service)
                       ELSE found[1]
                  cip == IF IsNone(found) THEN TRUE
                         ELSE s.change_in_progress
                  g == [cyc EXCEPT !.dir = IF IsNone(found) THEN "absent"
                                           ELSE "present",
                                   !.found = found]
              IN  IF ~cip
                  THEN /\ svc' = Some(s)
                       /\ cyc' = [g EXCEPT !.cat = "pending"]
                       /\ EnsureLoginThen("poll", "plan_options")
                       /\ UNCHANGED <<data, previous_service, update_interval,
                                      setup, selectVars>>
                  ELSE /\ Publish(s, TRUE, EmptyCatalog(s.speed_label),
                                  [g EXCEPT !.cat = "skipped"])
                       /\ UNCHANGED <<clientVars, selectVars>>

\* The answer to GET /service?avcid= arrives: the inner try and the rest.
OptionsResponse ==
    /\ pc["poll"] = "options_wait"
    /\ UNCHANGED parserVars
    /\ UNCHANGED <<clientVars, selectVars, cycles>>
    /\ \E r \in PageResponses(CatalogPages, EmptyCatalogPage) :
         LET p == ParsePlanOptions(r.page)
             s == svc[1]
         IN  IF r.transport \/ RaiseForStatus(r.status)
             THEN OptionsFailed(IF r.transport THEN "transport" ELSE "http")
             ELSE IF p.raised THEN OptionsFailed("parse")
             ELSE IF CatalogUnusable(p)
             THEN Publish(s, TRUE, EmptyCatalog(UnusableLabel(p, s)),
                          [cyc EXCEPT !.cat = "unusable",
                                      !.parsed = Some(p)])
             ELSE Publish(s, FALSE,
                          Catalog(p.options, p.label_to_psid, p.current_label,
                                  p.locid, p.plans_mapping),
                          [cyc EXCEPT !.cat = "usable", !.parsed = Some(p)])

\* A user picks an option: async_select_option up to its first suspension.
SelectOption(u) ==
    /\ pc[u] = "idle"
    /\ UNCHANGED parserVars
    /\ setup = "loaded"
    /\ requests[u] < MaxRequests
    /\ requests' = [requests EXCEPT ![u] = @ + 1]
    /\ UNCHANGED <<coordVars, cycles>>
    /\ \E option \in OptionChoices :
         LET d == data[1]
             mapping == d.label_to_psid
         IN  IF ~Available(d) \/ option \notin DOMAIN mapping
             THEN /\ SelectRefused(u, IF ~Available(d) THEN "unavailable"
                                      ELSE "invalid")
                  /\ chg' = [chg EXCEPT ![u] = NoChg]
                  /\ UNCHANGED clientVars
             ELSE IF LocidMissing(d.locid)
             THEN /\ pc' = [pc EXCEPT ![u] = "refresh_wait"]
                  /\ sel' = [sel EXCEPT ![u] = [psid |-> mapping[option],
                                                stage |-> "mid"]]
                  /\ outcome' = [outcome EXCEPT ![u] = "pending"]
                  /\ chg' = [chg EXCEPT ![u] = NoChg]
                  /\ UNCHANGED <<call, clientVars>>
             ELSE StartChange(u, mapping[option], d.locid)

\* The refresh a select request awaited is over.
SelectAfterRefresh(u) ==
    /\ pc[u] = "refreshed"
    /\ UNCHANGED parserVars
    /\ UNCHANGED <<coordVars, cycles, requests>>
    /\ IF sel[u].stage = "mid"
       THEN LET locid == data[1].locid
            IN  IF LocidMissing(locid)
                THEN /\ SelectRefused(u, "no_locid")
                     /\ UNCHANGED <<chg, clientVars>>
                ELSE StartChange(u, sel[u].psid, locid)
       ELSE /\ pc' = [pc EXCEPT ![u] = "idle"]
            /\ sel' = [sel EXCEPT ![u] = NoSel]
            /\ outcome' = [outcome EXCEPT ![u] = "ok"]
            /\ UNCHANGED <<call, chg, clientVars>>

\* The answer to GET /confirm_service arrives; on success the POST is sent.
ConfirmGetResponse(t) ==
    /\ pc[t] = "confirm_get_wait"
    /\ UNCHANGED parserVars
    /\ UNCHANGED <<clientVars, cycles>>
    /\ \E r \in Responses :
         IF r.transport \/ RaiseForStatus(r.status)
         THEN /\ Raise(t, IF r.transport THEN "transport" ELSE "http")
              /\ chg' = [chg EXCEPT ![t].get = Some(r)]
         ELSE /\ pc' = [pc EXCEPT ![t] = "confirm_post_wait"]
              /\ chg' = [chg EXCEPT ![t].get = Some(r), ![t].posts = @ + 1]
              /\ UNCHANGED <<call, sel, outcome, requests, coordVars>>

\* The answer to POST /confirm_service arrives.  On success
\* async_change_plan returns: the select entity then requests a refresh and
\* awaits it.
ConfirmPostResponse(t) ==
    /\ pc[t] = "confirm_post_wait"
    /\ UNCHANGED parserVars
    /\ UNCHANGED <<clientVars, cycles>>
    /\ \E r \in Responses :
         /\ chg' = [chg EXCEPT ![t].post = Some(AnswerIsError(r))]
         /\ IF r.transport \/ RaiseForStatus(r.status)
            THEN Raise(t, IF r.transport THEN "transport" ELSE "http")
            ELSE
              /\ UNCHANGED <<requests, coordVars>>
              /\ IF t \in Users
                 THEN /\ pc' = [pc EXCEPT ![t] = "refresh_wait"]
                      /\ call' = [call EXCEPT ![t] = "none"]
                      /\ sel' = [sel EXCEPT ![t].stage = "final"]
                      /\ UNCHANGED outcome
                 ELSE CallerDone(t, "ok")

RECURSIVE SumOver(_, _)
SumOver(f, S) ==
    IF S = {} THEN 0
    ELSE LET x == CHOOSE y \in S : TRUE IN f[x] + SumOver(f, S \ {x})

\* A direct caller invokes a public operation of the client.
ClientCall(c) ==
    /\ pc[c] = "idle"
    /\ UNCHANGED parserVars
    /\ SumOver(requests, Callers) < MaxCalls
    /\ requests' = [requests EXCEPT ![c] = @ + 1]
    /\ outcome' = [outcome EXCEPT ![c] = "pending"]
    /\ \E op \in ClientOps :
         /\ chg' = [chg EXCEPT ![c] =
                      IF op = "change_plan"
                      THEN [NoChg EXCEPT !.locid = Some("L1")] ELSE NoChg]
         /\ EnsureLoginThen(c, op)
    /\ UNCHANGED <<coordVars, sel, cycles>>

\* The answer to a direct caller's page request (GET /services or
\* GET /service) arrives: the operation raises or returns what it parsed.
CallerPageResponse(c) ==
    /\ pc[c] \in {"services_wait", "options_wait", "balance_wait"}
    /\ UNCHANGED parserVars
    /\ UNCHANGED <<clientVars, coordVars, cycles, requests, chg>>
    /\ \E r \in Responses :
         IF r.transport \/ RaiseForStatus(r.status)
         THEN CallerDone(c, "error")
         ELSE CallerDone(c, "ok")

Next ==
    \/ CycleStart
    \/ ServicesResponse
    \/ OptionsResponse
    \/ LoginResponse("poll")
    \/ \E u \in Users : SelectOption(u)
    \/ \E u \in Users : SelectAfterRefresh(u)
    \/ \E u \in Users : ConfirmGetResponse(u)
    \/ \E u \in Users : ConfirmPostResponse(u)

\* The integration: the coordinator and the select entity on one client.
\* A select request reaches the client only from a snapshot that holds a
\* catalog, that is after a login, so no task ever waits for the lock here
\* (NoLockWait below).
Spec == Init /\ [][Next]_vars

\* The client alone, its public operations invoked by concurrent callers.
ClientNext ==
    \/ \E c \in Callers : ClientCall(c)
    \/ \E c \in Callers : LockAcquired(c)
    \/ \E c \in Callers : LoginResponse(c)
    \/ \E c \in Callers : CallerPageResponse(c)
    \/ \E c \in Callers : ConfirmGetResponse(c)
    \/ \E c \in Callers : ConfirmPostResponse(c)

ClientSpec == Init /\ [][ClientNext]_vars

\* In the integration no task ever waits for the login lock, and only the
\* coordinator's refresh ever logs in.
NoLockWait ==
    /\ \A t \in Tasks : pc[t] # "lock_wait"
    /\ \A u \in Users : pc[u] # "login_wait"


(***************************************************************************)
(* The parsers alone: a page is drawn at the start and the parser that     *)
(* reads that kind of page is applied to it.                               *)
(***************************************************************************)
\* All sequences over S of length 0..n.
SeqsUpTo(S, n) == UNION {[1..k -> S] : k \in 0..n}

\* A card with everything but the named part (a third service, "Shed").
ShedCard(title, href, id, pause) ==
    Card(title, href, id, pause, Some("Fibre 25/5 Mbps"), Some("Active"))

\* The cards of the directory pages: two complete ones, and cards without
\* title tag, with an empty title, without chart link, with a link that has
\* no user id segment, without id attribute, without pause button.
CardChoices ==
    {TargetCard(Some("Fibre 100/40 Mbps"), Some("Change in progress")),
     OtherCard,
     BrokenTargetCard,
     ShedCard(None, Some(<<"/usage?avcid", "AVC3&userid", "U1">>), "AVC3",
              Some(3)),
     ShedCard(Some(""), Some(<<"/usage?avcid", "AVC3&userid", "U1">>), "AVC3",
              Some(3)),
     ShedCard(Some("Shed"), None, "AVC3", Some(3)),
     ShedCard(Some("Shed"), Some(<<"/usage?avcid", "AVC3&userid", "U1">>), "",
              Some(3)),
     ShedCard(Some("Shed"), Some(<<"/usage?avcid", "AVC3&userid", "U1">>),
              "AVC3", None)}

\* The plan items of the catalog pages: items that repeat a psid or a label,
\* an item without text, one without data-value, one whose data-value is
\* not a number.
ItemChoices ==
    {Item(Some("1"), "Plan A"), Item(Some("1"), "Plan B"),
     Item(Some("2"), "Plan A"), Item(Some("2"), ""),
     Item(None, "Header"), Item(Some("n/a"), "Plan X")}

ProbeChoices ==
    {<<Some("1"), None, None>>, <<None, Some("abc"), Some("2")>>,
     <<Some(""), Some(" 2 "), Some("1")>>, <<Some("abc"), None, Some("")>>,
     <<None, None, None>>}

\* The texts of the balance pages: "+$15.50", "-$5", "$1,500", "n/a", ",",
\* "DR -2.5", "- $5".
SpanTexts ==
    {<<"+", "$", "1", "5", ".", "5", "0">>,
     <<"-", "$", "5">>,
     <<"$", "1", ",", "5", "0", "0">>,
     <<"n", "/", "a">>,
     <<",">>,
     <<"D", "R", " ", "-", "2", ".", "5">>,
     <<"-", " ", "$", "5">>}

\* The texts after the words "Current Balance": ": +$7", " -$7.25", "$0",
\* " n/a", ": ,".
TailTexts ==
    {<<":", " ", "+", "$", "7">>,
     <<" ", "-", "$", "7", ".", "2", "5">>,
     <<"$", "0">>,
     <<" ", "n", "/", "a">>,
     <<":", " ", ",">>}

BalanceInputs ==
    {[kind |-> "balance", page |-> BalancePage(labelled, card, tail)] :
        labelled \in {None} \cup {Some(t) : t \in SpanTexts},
        card \in {None} \cup {Some(t) : t \in SpanTexts},
        tail \in {None} \cup {Some(t) : t \in TailTexts}}

DirectoryInputs ==
    {[kind |-> "directory", page |-> cards] :
        cards \in SeqsUpTo(CardChoices, MaxCards)}

CatalogInputs ==
    {[kind |-> "catalog", page |-> CatalogPage(probes, items, locid)] :
        probes \in ProbeChoices, items \in SeqsUpTo(ItemChoices, MaxItems),
        locid \in {None, Some("L1")}}

ParserInit ==
    /\ Constructed
    /\ \/ input \in {Some(x) : x \in DirectoryInputs}
       \/ input \in {Some(x) : x \in CatalogInputs}
       \/ input \in {Some(x) : x \in BalanceInputs}
    /\ result = None

\* async_get_services parses the page it fetched.
ParseDirectoryPage ==
    /\ input # None
    /\ input[1].kind = "directory"
    /\ result = None
    /\ result' = Some(ParseServices(input[1].page))
    /\ UNCHANGED <<input, programVars>>

\* async_get_plan_options parses the page it fetched.
ParseCatalogPage ==
    /\ input # None
    /\ input[1].kind = "catalog"
    /\ result = None
    /\ result' = Some(ParsePlanOptions(input[1].page))
    /\ UNCHANGED <<input, programVars>>

\* async_get_balance parses the page it fetched.
ParseBalancePage ==
    /\ input # None
    /\ input[1].kind = "balance"
    /\ result = None
    /\ result' = Some(ParseBalance(input[1].page))
    /\ UNCHANGED <<input, programVars>>

ParserNext ==
    \/ ParseDirectoryPage
    \/ ParseCatalogPage
    \/ ParseBalancePage

ParserSpec == ParserInit /\ [][ParserNext]_vars

(***************************************************************************)
(* Properties.                                                             *)
(***************************************************************************)
\* An answer to POST /login with an HTTP error status or the login form.
LoginAnswerBad(r) == ~r.transport /\ (r.status >= 400 \/ r.form)

\* A task is inside async_change_plan.
InChangePlan(t) == call[t] = "change_plan"

\* The snapshot's catalog fields are the empty defaults.
CatalogCleared(d) ==
    /\ d.options = <<>>
    /\ d.label_to_psid = EmptyDict
    /\ IsNone(d.locid)
    /\ d.plans_mapping = EmptyDict

\* A synthesized placeholder: configured ids, no speed label, in change.
IsPlaceholder(s) ==
    /\ s.service_id = service_id
    /\ s.avcid = avcid
    /\ s.user_id = user_id
    /\ IsNone(s.speed_label)
    /\ s.change_in_progress

\* The service a cycle falls back to: the one remembered when it started,
\* else a placeholder.
IsFallbackOf(s, prev) == IF prev # None THEN s = prev[1] ELSE IsPlaceholder(s)

\* C1, as stated: callers that invoke _ensure_login concurrently on an
\* unauthenticated session issue no more than one POST /login in total.
\* A caller that waited behind a concurrent caller's login is the second to
\* leave _ensure_login: under the claim it issues no login request.
C1_AtMostOneLoginInTotal ==
    [][\A c \in Callers :
          (pc[c] = "lock_wait" /\ pc'[c] # "lock_wait")
          => login_posts' = login_posts]_vars

\* C1, amended: every POST /login but one is a login that failed; so
\* concurrent callers issue one login request when it succeeds, and one more
\* for each attempt that fails.
C1_OneLoginBeyondTheFailedOnes == login_posts <= login_fails + 1

\* C1: one caller's login is in flight, the two others wait for the lock.
C1_Witness ==
    /\ login_posts = 1
    /\ \E c \in Callers :
         /\ pc[c] = "login_wait"
         /\ \A d \in Callers \ {c} : pc[d] = "lock_wait"

\* C2, as stated: the POST to /confirm_service is issued only after the GET
\* has returned a 2xx status.
C2_PostOnlyAfter2xxGet ==
    \A t \in Agents :
        chg[t].posts > 0 =>
            /\ chg[t].get # None
            /\ ~chg[t].get[1].transport
            /\ chg[t].get[1].status >= 200
            /\ chg[t].get[1].status < 300

\* C2, amended: the POST is issued only after the GET has returned a status
\* below 400; when the GET fails in transport or returns a status of 400 or
\* above, the call fails with an error and has issued no POST.
C2_PostOnlyAfterNonErrorGet ==
    \A t \in Agents :
        /\ chg[t].posts > 0 =>
              /\ chg[t].get # None
              /\ ~chg[t].get[1].transport
              /\ chg[t].get[1].status < 400
        /\ (/\ chg[t].get # None
            /\ chg[t].get[1].transport \/ chg[t].get[1].status >= 400)
           => chg[t].posts = 0 /\ outcome[t] = "error" /\ ~InChangePlan(t)

\* C2: a plan change whose GET returned 500 has ended.
C2_Witness ==
    \E u \in Users :
        /\ chg[u].get = Some(Response(FALSE, 500))
        /\ chg[u].posts = 0
        /\ outcome[u] = "error"

\* C3: a cycle whose directory fetch failed has completed, and published
\* change_in_progress = true with the service remembered when the cycle
\* started, or with a placeholder when there was none.
C3_DirectoryFailureFallsBack ==
    (cyc.done /\ cyc.dir = "fail") =>
        /\ setup = "loaded"
        /\ data # None
        /\ data[1].change_in_progress
        /\ IsFallbackOf(data[1].service, cyc.prev)
        /\ previous_service = Some(data[1].service)

\* C3: a failed fetch reused a remembered service that is no placeholder.
C3_Witness ==
    /\ cyc.done
    /\ cyc.dir = "fail"
    /\ cyc.err = "http"
    /\ cyc.prev # None
    /\ ~cyc.prev[1].change_in_progress
    /\ data[1].service = cyc.prev[1]

\* C4: a cycle whose directory lacked the target service published
\* change_in_progress = true, empty catalog fields, and the remembered
\* service or else a placeholder.
C4_AbsentServiceFallsBack ==
    (cyc.done /\ cyc.dir = "absent") =>
        /\ data # None
        /\ data[1].change_in_progress
        /\ CatalogCleared(data[1])
        /\ IsFallbackOf(data[1].service, cyc.prev)

\* C4: the service was absent in a cycle that remembered a real service.
C4_Witness ==
    /\ cyc.done
    /\ cyc.dir = "absent"
    /\ cyc.prev # None
    /\ ~IsNone(cyc.prev[1].speed_label)
    /\ data[1].service = cyc.prev[1]
    /\ CatalogCleared(data[1])

\* C5: when the service is present and not changing and the catalog parsed
\* has no options and no current label, or no location id, the cycle
\* publishes change_in_progress = true and cleared catalog fields, and the
\* current label is the service's speed label when the catalog gave none.
C5_UnusableCatalogForcesChange ==
    (/\ cyc.done
     /\ cyc.parsed # None
     /\ \/ cyc.parsed[1].options = <<>> /\ IsNone(cyc.parsed[1].current_label)
        \/ IsNone(cyc.parsed[1].locid))
    => /\ cyc.dir = "present"
       /\ ~data[1].service.change_in_progress
       /\ data[1].change_in_progress
       /\ CatalogCleared(data[1])
       /\ data[1].current_label =
             IF IsNone(cyc.parsed[1].current_label)
             THEN data[1].service.speed_label
             ELSE cyc.parsed[1].current_label

\* C5: scenario B, the catalog page gave nothing and the speed label shows.
C5_Witness ==
    /\ cyc.done
    /\ cyc.parsed # None
    /\ cyc.parsed[1].options = <<>>
    /\ IsNone(cyc.parsed[1].current_label)
    /\ data[1].change_in_progress
    /\ data[1].current_label = Some("Fibre 100/40 Mbps")

\* C6: once a cycle has completed, the first included, the interval is
\* CHANGE_POLL_INTERVAL if the published snapshot has change_in_progress
\* and NORMAL_INTERVAL if it has not.
C6_IntervalFollowsSnapshot ==
    data # None =>
        update_interval = IF data[1].change_in_progress
                          THEN CHANGE_POLL_INTERVAL ELSE NORMAL_INTERVAL

\* C6: a later cycle found the change over and switched the interval back.
C6_Witness ==
    /\ cyc.done
    /\ ~cyc.first
    /\ cyc.wrote
    /\ ~data[1].change_in_progress
    /\ update_interval = NORMAL_INTERVAL

\* C7: an answer to POST /login with an error status or the login form
\* makes the caller's operation fail and leaves the session
\* unauthenticated; and a caller that then enters _ensure_login while no
\* login is in flight issues a new POST /login.
C7_RejectedLoginLeavesUnauthenticated ==
    [][\A c \in Callers :
          /\ (/\ pc[c] = "login_wait"
              /\ pc'[c] # "login_wait"
              /\ LoginAnswerBad(last_login'[1]))
             => ~logged_in' /\ pc'[c] = "idle" /\ outcome'[c] = "error"
          /\ (/\ last_login # None
              /\ LoginAnswerBad(last_login[1])
              /\ lock = "free"
              /\ pc[c] = "idle"
              /\ pc'[c] # "idle")
             => ~logged_in /\ pc'[c] = "login_wait"
                /\ login_posts' = login_posts + 1]_vars

\* C7: after a rejected login a second login request is in flight.
C7_Witness ==
    /\ last_login # None
    /\ LoginAnswerBad(last_login[1])
    /\ ~logged_in
    /\ login_posts = 2
    /\ \E c \in Callers : pc[c] = "login_wait"

\* A caller has made two calls in sequence on a client nobody else uses,
\* and the second is past its _ensure_login.
TwoCallsInSequence(c) ==
    /\ requests[c] = 2
    /\ pc[c] \notin {"lock_wait", "login_wait"}
    /\ \A d \in Callers \ {c} : requests[d] = 0

\* C8, as stated: calling _ensure_login twice in sequence on a fresh client
\* issues exactly one login request.
C8_TwoCallsOneLogin ==
    \A c \in Callers : TwoCallsInSequence(c) => login_posts = 1

\* C8, amended: the two calls issue exactly one login request when the
\* first call's login succeeds, and two when it fails (login_fails = 0
\* says that no login of the two calls failed).
C8_TwoCallsOneLoginIfItSucceeds ==
    \A c \in Callers :
        TwoCallsInSequence(c) =>
            login_posts = IF login_fails = 0 THEN 1 ELSE 2

\* C8: two calls in sequence, one login, the session authenticated.
C8_Witness ==
    \E c \in Callers :
        /\ TwoCallsInSequence(c)
        /\ login_posts = 1
        /\ logged_in
        /\ pc[c] = "idle"

\* C9, as stated: an authentication error in the setup-time cycle is not
\* absorbed, the first refresh fails.
C9_FirstAuthErrorFailsSetup ==
    (cyc.first /\ cyc.done /\ cyc.err = "auth") => setup = "failed"

\* C9, amended: an authentication error is absorbed in every cycle, the
\* setup-time one included: the refresh succeeds and publishes
\* change_in_progress = true with the remembered service, or a placeholder
\* in the setup-time cycle.
C9_AuthErrorIsAbsorbed ==
    (cyc.done /\ cyc.err = "auth") =>
        /\ setup = "loaded"
        /\ data # None
        /\ data[1].change_in_progress
        /\ IF cyc.first THEN IsPlaceholder(data[1].service)
           ELSE cyc.prev # None /\ data[1].service = cyc.prev[1]

\* C9: the setup-time cycle met an authentication error and setup went on.
C9_Witness ==
    /\ cyc.first
    /\ cyc.done
    /\ cyc.err = "auth"
    /\ setup = "loaded"
    /\ IsPlaceholder(data[1].service)

\* C10, as stated: two plan-change submissions for the service never
\* overlap.
C10_NoOverlappingSubmissions ==
    \A u, v \in Users : (u # v) => ~(InChangePlan(u) /\ InChangePlan(v))


\* A task waits for the answer to a request to /confirm_service.
AtConfirmEndpoint(t) == pc[t] \in {"confirm_get_wait", "confirm_post_wait"}

\* C11: no request to the confirmation endpoint, GET or POST, is ever
\* issued with an empty or absent location id: every plan change in flight
\* carries a non-empty locid.
C11_NoRequestWithoutLocid ==
    \A t \in Agents : AtConfirmEndpoint(t) => Truthy(chg[t].locid)

\* A request found an empty location id in the snapshot, issued nothing and
\* awaits a refresh instead.
C11_Witness ==
    \E u \in Users :
        /\ pc[u] = "refresh_wait"
        /\ sel[u].stage = "mid"
        /\ data[1].locid = Some("")
        /\ chg[u] = NoChg

\* C12: every published snapshot has a service, and its service id is the
\* configured target service id.
C12_SnapshotServiceIsTarget ==
    data # None =>
        /\ data[1].service.service_id = service_id
        /\ data[1].service_id = service_id

\* A snapshot published by a cycle whose catalog fetch failed, after a page
\* that also listed another service.
C12_Witness ==
    /\ data # None
    /\ cyc.done
    /\ cyc.cat = "raise"
    /\ data[1].service.service_id = service_id
    /\ data[1].service.title = "Home Fibre"

\* C13: every published snapshot carries the account balance.
C13_SnapshotCarriesBalance ==
    data # None => "account_balance" \in DOMAIN data[1]

\* A task waits for the answer to the page request of its operation.
AtPageRequest(t) ==
    pc[t] \in {"services_wait", "options_wait", "balance_wait",
               "confirm_get_wait", "confirm_post_wait"}

\* C14: no request to /services, /service or /confirm_service is in flight
\* while the session is unauthenticated; in particular an operation whose
\* login failed has issued no page request.
C14_PageRequestOnlyWhenLoggedIn ==
    \A t \in Tasks : AtPageRequest(t) => logged_in

\* After a failed login, a later balance fetch logged in and sent its page
\* request.
C14_Witness ==
    /\ login_fails > 0
    /\ logged_in
    /\ \E c \in Callers : pc[c] = "balance_wait"

\* The GET, resp. the POST, of a plan change failed (of the POST only that
\* is recorded).
GetFailed(c) == c.get # None /\ AnswerIsError(c.get[1])

PostFailed(c) == c.post = Some(TRUE)

\* C15: when the GET or the POST of a select request's plan change fails,
\* the request has ended with an error to its initiator and awaits no
\* follow-up refresh.
C15_ChangeFailureSurfaces ==
    \A u \in Users :
        (GetFailed(chg[u]) \/ PostFailed(chg[u])) =>
            /\ outcome[u] = "error"
            /\ pc[u] = "idle"
            /\ sel[u] = NoSel

\* A select request whose GET passed and whose POST failed.
C15_Witness ==
    \E u \in Users :
        /\ chg[u].get # None
        /\ ~GetFailed(chg[u])
        /\ PostFailed(chg[u])
        /\ outcome[u] = "error"


\* The poll task is not inside a cycle, and a cycle has been started.
CycleOver == pc["poll"] = "idle" /\ cyc.dir # "none"

\* C19: a polling cycle never raises past the coordinator: whatever login,
\* directory fetch and catalog fetch answered, setup never fails and a cycle
\* that is over has published a snapshot.
C19_CycleAlwaysPublishes ==
    /\ setup # "failed"
    /\ CycleOver => (cyc.done /\ data # None /\ setup = "loaded")

\* A cycle whose catalog fetch was answered with an HTTP error status has
\* published a snapshot.
C19_Witness ==
    /\ CycleOver
    /\ cyc.done
    /\ cyc.cat = "raise"
    /\ cyc.err = "http"
    /\ data # None

\* The directory read of the cycle put the coordinator in a change state.
ChangeState(g) ==
    \/ g.dir \in {"fail", "absent"}
    \/ g.dir = "present" /\ g.found[1].change_in_progress

\* C20: a cycle whose directory read gave a change state (service changing,
\* service absent, or directory fetch failed) issued no catalog request and
\* published the resolved service's speed label as the current label.
C20_ChangeStateShowsSpeedLabel ==
    (cyc.done /\ ChangeState(cyc)) =>
        /\ cyc.cat \in {"none", "skipped"}
        /\ data[1].current_label = data[1].service.speed_label


\* A catalog page has been parsed without an exception.
CatalogParsed ==
    /\ input # None
    /\ input[1].kind = "catalog"
    /\ result # None
    /\ ~result[1].raised

\* C16: for every catalog page, whenever the returned current label is not
\* None, plans_mapping[label_to_psid[current_label]].label is that label.
C16_CurrentLabelRoundTrips ==
    (CatalogParsed /\ result[1].current_label # None) =>
        LET r == result[1]
            l == r.current_label[1]
        IN  r.plans_mapping[r.label_to_psid[l]].label = l

\* A directory page has been parsed.
DirectoryParsed ==
    /\ input # None
    /\ input[1].kind = "directory"
    /\ result # None

\* A card has a title, a derivable service id, an avc id and a user id.
HasAllFour(card) ==
    /\ card.title # None
    /\ card.title[1] # ""
    /\ card.pause # None
    /\ card.id # ""
    /\ card.href # None
    /\ Len(card.href[1]) > 2
    /\ card.href[1][3] # ""

\* C17: the result of the directory parser is, in page order, exactly the
\* cards that have all four of title, service id, avc id and user id; the
\* other cards are left out and change nothing else.
C17_ExactlyTheCompleteCards ==
    DirectoryParsed =>
        LET kept == SelectSeq(input[1].page, HasAllFour)
            got == result[1]
        IN  /\ Len(got) = Len(kept)
            /\ \A i \in 1..Len(kept) :
                  /\ got[i].title = kept[i].title[1]
                  /\ got[i].service_id = kept[i].pause[1]
                  /\ got[i].avcid = kept[i].id
                  /\ got[i].user_id = kept[i].href[1][3]

\* A page whose first card has no user id and whose second card is
\* complete gave the second card alone.
C17_Witness ==
    /\ DirectoryParsed
    /\ input[1].page = <<BrokenTargetCard, OtherCard>>
    /\ Len(result[1]) = 1
    /\ result[1][1].service_id = 2


\* A balance page has been parsed.
BalanceParsed ==
    /\ input # None
    /\ input[1].kind = "balance"
    /\ result # None

\* What each of the three tiers finds on a page, in the order they are
\* tried: None, or a sign and a magnitude.
TierYields(page) ==
    <<IF page.labelled = None THEN None ELSE SpanYield(page.labelled[1]),
      IF page.card = None THEN None ELSE SpanYield(page.card[1]),
      IF page.tail = None THEN None ELSE TailYield(page.tail[1])>>

\* C18: the balance is the amount of the first of the three tiers (labelled
\* pair, balance card, full-text search) that yields one, negated when its
\* sign is "-" and positive when the sign is "+" or absent; when no tier
\* yields an amount the result is None.
C18_FirstTierThatYields ==
    BalanceParsed =>
        LET tiers == TierYields(input[1].page)
            hits == {k \in 1..3 : tiers[k] # None}
        IN  IF hits = {} THEN result[1] = None
            ELSE LET first == CHOOSE k \in hits : \A j \in hits : k <= j
                     y == tiers[first][1]
                 IN  result[1] = Some(IF y.sign = "-" THEN 0 - y.magnitude
                                      ELSE y.magnitude)

\* The labelled pair held "," (no amount), the balance card "-$5": the
\* result is minus five dollars although the page text shows "+$7".
C18_Witness ==
    /\ BalanceParsed
    /\ input[1].page = BalancePage(Some(<<",">>), Some(<<"-", "$", "5">>),
                                   Some(<<":", " ", "+", "$", "7">>))
    /\ result[1] = Some(0 - 500)


\* The directory read of the finished cycle found the target service, not
\* in change.
DirectorySaysNormal(g) ==
    g.dir = "present" /\ ~g.found[1].change_in_progress

\* C21 as stated: whenever the directory fetch succeeds and reports the
\* service present and not in change, the coordinator is in Normal after
\* the cycle.
C21_DirectoryAloneDecides ==
    (cyc.done /\ DirectorySaysNormal(cyc)) =>
        /\ update_interval = NORMAL_INTERVAL
        /\ ~data[1].change_in_progress

\* C21, amended: after a cycle the coordinator is in Normal exactly when
\* the directory reported the service present and not in change and the
\* catalog fetch returned a usable catalog.
C21_DirectoryAndCatalogDecide ==
    cyc.done =>
        /\ (update_interval = NORMAL_INTERVAL)
             <=> (DirectorySaysNormal(cyc) /\ cyc.cat = "usable")
        /\ update_interval \in {NORMAL_INTERVAL, CHANGE_POLL_INTERVAL}

\* The directory said normal, the catalog fetch failed or was unusable, and
\* the coordinator polls at the change interval.
C21_Witness ==
    /\ cyc.done
    /\ DirectorySaysNormal(cyc)
    /\ cyc.cat \in {"raise", "unusable"}
    /\ update_interval = CHANGE_POLL_INTERVAL

\* User task u takes a decision of async_select_option in this step: its
\* entry check, or the re-read after its mid-operation refresh.
SelectDecides(u) ==
    \/ requests'[u] # requests[u]
    \/ pc[u] = "refreshed" /\ sel[u].stage = "mid" /\ pc'[u] # pc[u]

\* C22: a select request that decides while the latest snapshot has
\* change_in_progress = true, at its entry or after its own mid-operation
\* refresh, ends with an error and has issued no request to the
\* confirmation endpoint.
C22_NoChangeWhileInProgress ==
    [][\A u \in Users :
         (data # None /\ data[1].change_in_progress /\ SelectDecides(u))
            => /\ outcome'[u] \in {"unavailable", "no_locid"}
               /\ pc'[u] = "idle"
               /\ chg'[u] = NoChg]_vars

\* A request was refused after its mid-operation refresh, under a snapshot
\* in change.
C22_Witness ==
    \E u \in Users :
        /\ outcome[u] = "no_locid"
        /\ pc[u] = "idle"
        /\ chg[u] = NoChg
        /\ data[1].change_in_progress

\* C23: when the directory reports the service present and not in change
\* and the catalog fetch throws, the cycle publishes change_in_progress =
\* true, empty catalog fields and the service's speed label as current
\* label, and the refresh does not fail.
C23_CatalogThrowFallsBack ==
    (cyc.done /\ cyc.cat = "raise") =>
        /\ DirectorySaysNormal(cyc)
        /\ data[1].change_in_progress
        /\ CatalogCleared(data[1])
        /\ data[1].service = cyc.found[1]
        /\ data[1].current_label = cyc.found[1].speed_label
        /\ setup = "loaded"

\* A catalog page with a non-numeric data-value made the parser raise; the
\* snapshot shows the service's speed label.
C23_Witness ==
    /\ cyc.done
    /\ cyc.cat = "raise"
    /\ cyc.err = "parse"
    /\ data[1].current_label = Some("Fibre 100/40 Mbps")

\* C24: after every completed cycle the remembered previous service is the
\* service of the published snapshot, and a cycle that falls back while a
\* service is remembered publishes exactly that service.
C24_PreviousIsLastPublished ==
    /\ data # None => previous_service = Some(data[1].service)
    /\ (cyc.done /\ cyc.dir \in {"fail", "absent"} /\ cyc.prev # None)
          => data[1].service = cyc.prev[1]

\* A placeholder synthesized by an earlier cycle was remembered and is
\* published again by a cycle that did not find the service.
C24_Witness ==
    /\ cyc.done
    /\ cyc.dir = "absent"
    /\ cyc.prev = Some(PlaceholderService)
    /\ data[1].service = PlaceholderService
    /\ previous_service = Some(PlaceholderService)

\* The probe locations of a page whose value parses as an integer.
ProbeHits(probes) ==
    {k \in 1..Len(probes) : probes[k] # None /\ probes[k][1] # ""
                              /\ IsIntString(probes[k][1])}

\* C25: the current plan id is the value at the first of the three probe
\* locations whose value parses as an integer; absent, empty and
\* non-integer values are skipped, and when none parses the current plan id
\* and the current label are absent.
C25_FirstIntegerProbe ==
    CatalogParsed =>
        LET probes == input[1].page.probes
            hits == ProbeHits(probes)
        IN  IF hits = {}
            THEN /\ result[1].current_psid = None
                 /\ result[1].current_label = None
            ELSE LET first == CHOOSE k \in hits : \A j \in hits : k <= j
                 IN  result[1].current_psid = Some(IntOf(probes[first][1]))

\* The psid field is empty, the current_psid field holds " 2 ": the
\* current plan id is 2, not the 1 of the data attribute.
C25_Witness ==
    /\ CatalogParsed
    /\ input[1].page.probes = <<Some(""), Some(" 2 "), Some("1")>>
    /\ result[1].current_psid = Some(2)

\* C26: the flag is false at construction; it becomes true only in the
\* step that receives a login answer that is not a rejection; once true it
\* stays true and no further login request is issued.
C26_FlagSetOnceByLogin ==
    /\ ~logged_in
    /\ [][/\ logged_in => (logged_in' /\ login_posts' = login_posts)
          /\ (~logged_in /\ logged_in') =>
                /\ \E t \in Tasks : pc[t] = "login_wait"
                /\ last_login' # None
                /\ ~last_login'[1].transport
                /\ ~LoginAnswerBad(last_login'[1])]_vars

\* After the only login, which succeeded, an operation failed on its page
\* fetch and the session is still authenticated.
C26_Witness ==
    /\ logged_in
    /\ login_posts = 1
    /\ login_fails = 0
    /\ \E c \in Callers : outcome[c] = "error"

\* C27: a cycle that publishes the same change_in_progress as the cycle
\* before it does not assign the scheduler interval.
C27_NoWriteWhenUnchanged ==
    (cyc.done /\ cyc.prevcip # None
       /\ cyc.prevcip[1] = data[1].change_in_progress) => ~cyc.wrote

\* Two cycles in a row published change_in_progress = true and the second
\* left the interval alone.
C27_Witness ==
    /\ cyc.done
    /\ cyc.prevcip = Some(TRUE)
    /\ data[1].change_in_progress
    /\ ~cyc.wrote
    /\ update_interval = CHANGE_POLL_INTERVAL

\* C28: in every published snapshot, change_in_progress = true implies
\* empty options, label map and plans and no location id; and
\* change_in_progress = false implies a location id that is not None and
\* options that are not empty or a current label that is not None.
C28_SnapshotShape ==
    data # None =>
        LET d == data[1]
        IN  /\ d.change_in_progress => CatalogCleared(d)
            /\ ~d.change_in_progress =>
                  /\ d.locid # None
                  /\ (d.options # <<>> \/ d.current_label # None)

\* A snapshot not in change whose location id is present but empty.
C28_Witness ==
    /\ data # None
    /\ ~data[1].change_in_progress
    /\ data[1].locid = Some("")
    /\ data[1].options # <<>>

\* C29: at most one login request is in flight at any time, and the task
\* that issued it holds the lock.
C29_OneLoginInFlight ==
    /\ Cardinality({t \in Tasks : pc[t] = "login_wait"}) <= 1
    /\ \A t \in Tasks : pc[t] = "login_wait" => lock = t

\* After a failed login, one caller's login request is in flight while
\* another caller waits for the lock.
C29_Witness ==
    /\ login_fails > 0
    /\ \E c, d \in Callers :
          /\ c # d
          /\ pc[c] = "login_wait"
          /\ pc[d] = "lock_wait"

\* C30: whatever was published before, a cycle whose directory read finds
\* the service present and not in change and whose catalog is usable
\* publishes change_in_progress = false with that catalog's options, label
\* map, current label and location id, and sets the normal interval.
C30_ChangeStateNotSticky ==
    (cyc.done /\ cyc.cat = "usable") =>
        LET d == data[1]
            p == cyc.parsed[1]
        IN  /\ DirectorySaysNormal(cyc)
            /\ ~d.change_in_progress
            /\ d.options = p.options
            /\ d.label_to_psid = p.label_to_psid
            /\ d.current_label = p.current_label
            /\ d.locid = p.locid
            /\ update_interval = NORMAL_INTERVAL

\* The cycle before published change_in_progress = true; this one
\* published a usable catalog and wrote the normal interval.
C30_Witness ==
    /\ cyc.done
    /\ cyc.cat = "usable"
    /\ cyc.prevcip = Some(TRUE)
    /\ ~data[1].change_in_progress
    /\ data[1].options = <<"Plan A", "Plan B">>
    /\ cyc.wrote
    /\ update_interval = NORMAL_INTERVAL


\* C31: in every catalog result each label of options is a key of
\* label_to_psid, each key of label_to_psid occurs in options, and each
\* psid of label_to_psid is a key of plans_mapping.
C31_OptionsResolveToPlans ==
    CatalogParsed =>
        LET r == result[1]
        IN  /\ \A k \in 1..Len(r.options) :
                  r.options[k] \in DOMAIN r.label_to_psid
            /\ \A l \in DOMAIN r.label_to_psid :
                  /\ \E k \in 1..Len(r.options) : r.options[k] = l
                  /\ r.label_to_psid[l] \in DOMAIN r.plans_mapping

\* A page with a labelled item and an item without text: one option, one
\* label, and plans for both psids.
C31_Witness ==
    /\ CatalogParsed
    /\ input[1].page.items = <<Item(Some("1"), "Plan A"), Item(Some("2"), "")>>
    /\ result[1].options = <<"Plan A">>
    /\ DOMAIN result[1].label_to_psid = {"Plan A"}
    /\ DOMAIN result[1].plans_mapping = {1, 2}

=============================================================================
